---- MODULE Spec2Model ----
(***************************************************************************)
(* A model of logknife (src/src/logknife.c): the built-in pattern matcher, *)
(* the include/exclude line filter, the backward tail locator and the      *)
(* polling follow loop, together with the external writer of the followed  *)
(* file and the failures of the size query.                                *)
(*                                                                         *)
(* Strings are sequences of one-character strings; the terminating NUL of  *)
(* a C string is the end of the sequence.  The stdio buffer of the FILE is *)
(* transparent: a read at the stream position sees the file as it is at    *)
(* the moment of the read.                                                 *)
(***************************************************************************)
EXTENDS Integers, Sequences, FiniteSets, TLC

VARIABLES
  re, text, result,          \* inputs and result of the matcher and the filter
  include, exclude,          \* opts_t.include / opts_t.exclude
  tail_lines, block,         \* effective tail request; block size of the backward scan
  file,                      \* the bytes of the followed file
  pc,                        \* position of the program
  offset,                    \* position of the stream fp
  last_size,                 \* cmd_follow: last_size
  tend, tpos, found,         \* tail_last_lines: end, pos, found
  emitted,                   \* what print_line was given, in order
  stat,                      \* the size query: "ok", or "dead" (fails from now on)
  writes,                    \* number of steps the writer has taken
  truncated, everPartial, statFailed, tailOffset, partialStart, watch, tw  \* history

pureVars == <<re, text, result>>
optVars  == <<include, exclude, tail_lines, block>>
progVars == <<pc, offset, last_size, tend, tpos, found, emitted>>
histVars == <<truncated, everPartial, statFailed, tailOffset, partialStart, watch, tw>>
vars == <<pureVars, optVars, progVars, histVars, file, stat, writes>>

----------------------------------------------------------------------------
(* Bounds of the model *)

MaxPat == 4        \* longest pattern given to the matcher
MaxText == 4       \* longest text given to the matcher
MaxPats == 2       \* most include (and most exclude) patterns of a filter
MaxLine == 3       \* longest line given to the filter
MaxTailFile == 5   \* longest file given to the tail locator alone
MaxN == 3          \* largest tail request
MaxBlock == 3      \* largest small block size of the backward scan
MaxFile == 4       \* longest followed file
MaxWrites == 3     \* most steps of the writer

(* Program constants *)

TailBlock == 4096      \* tail_last_lines: block
LineBuf == 8192        \* char line[8192] / char buf[8192]
MaxSinceTail == 100000 \* clamp of the tail derived from --since

NL == "\n"
CR == "\r"
Lits == {"a", "b"}

SeqsUpTo(S, n) == UNION {[1..k -> S] : k \in 0..n}
Min(a, b) == IF a < b THEN a ELSE b
Max(a, b) == IF a > b THEN a ELSE b
Drop(s, k) == SubSeq(s, k + 1, Len(s))

----------------------------------------------------------------------------
(* Built-in matcher *)

RECURSIVE matchhere(_, _), matchstar(_, _, _)

matchstar_plus(c, r, t) ==
  t # <<>> /\ (t[1] = c \/ c = ".")
    /\ (matchhere(r, Tail(t)) \/ matchstar(c, r, Tail(t)))

matchstar(c, r, t) ==
  IF matchhere(r, t) THEN TRUE
  ELSE IF t # <<>> /\ (t[1] = c \/ c = ".") THEN matchstar(c, r, Tail(t))
  ELSE FALSE

matchhere(r, t) ==
  IF r = <<>> THEN TRUE
  ELSE IF r[1] = "$" /\ Len(r) = 1 THEN t = <<>>
  ELSE IF Len(r) >= 2 /\ r[2] = "*" THEN matchstar(r[1], Drop(r, 2), t)
  ELSE IF t # <<>> /\ (r[1] = "." \/ r[1] = t[1]) THEN matchhere(Tail(r), Tail(t))
  ELSE FALSE

RECURSIVE search(_, _)
search(r, t) ==
  IF matchhere(r, t) THEN TRUE
  ELSE IF t # <<>> THEN search(r, Tail(t))
  ELSE FALSE

matchre_anchored(r, t) ==
  IF r # <<>> /\ r[1] = "^" THEN matchhere(Tail(r), t) ELSE matchhere(r, t)

matchre_builtin(r, t) ==
  IF r # <<>> /\ r[1] = "^" THEN matchhere(Tail(r), t) ELSE search(r, t)

re_match(r, t) == matchre_builtin(r, t)

----------------------------------------------------------------------------
(* Line filter *)

RECURSIVE rstrip_newlines(_)
rstrip_newlines(s) ==
  IF Len(s) > 0 /\ (s[Len(s)] = NL \/ s[Len(s)] = CR)
  THEN rstrip_newlines(SubSeq(s, 1, Len(s) - 1))
  ELSE s

\* the loop "for (i = 0; i < count; i++) if (re_match(&pats[i], tmp)) ..." from i on
RECURSIVE any_match(_, _, _)
any_match(pats, i, t) ==
  IF i > Len(pats) THEN FALSE
  ELSE IF re_match(pats[i], t) THEN TRUE
  ELSE any_match(pats, i + 1, t)

should_print_include_wins(inc, exc, ln) ==
  LET tmp == rstrip_newlines(ln)
  IN  IF Len(inc) > 0 THEN any_match(inc, 1, tmp) ELSE ~any_match(exc, 1, tmp)

should_print(inc, exc, ln) ==
  LET tmp == rstrip_newlines(ln)
  IN  IF Len(inc) > 0 /\ ~any_match(inc, 1, tmp) THEN FALSE
      ELSE IF any_match(exc, 1, tmp) THEN FALSE
      ELSE TRUE

----------------------------------------------------------------------------
(* File access *)

Terminated(f) == f = <<>> \/ f[Len(f)] = NL

\* file_size(fp): the size, or -1 when fstat fails (fails: this call fails)
file_size(fails) == IF stat = "ok" /\ ~fails THEN Len(file) ELSE -1

\* fgets(buf, size, fp) at stream position off: up to and including the first
\* '\n', at most size - 1 bytes; <<>> stands for NULL (nothing to read)
RECURSIVE line_end(_, _, _)
line_end(f, i, last) ==
  IF i >= last THEN last
  ELSE IF f[i] = NL THEN i
  ELSE line_end(f, i + 1, last)

fgets(f, off, size) ==
  IF off >= Len(f) THEN <<>>
  ELSE SubSeq(f, off + 1, line_end(f, off + 1, Min(Len(f), off + size - 1)))

\* fread(buf, 1, to_read, fp) after fseek(fp, pos)
fread(f, pos, to_read) == SubSeq(f, pos + 1, Min(Len(f), pos + to_read))

\* the for loop of tail_last_lines over one block, from index i down
RECURSIVE scan_block_ge(_, _, _, _)
scan_block_ge(buf, i, fnd, n) ==
  IF i = 0 THEN [hit |-> FALSE, i |-> 0, found |-> fnd]
  ELSE IF buf[i] = NL
       THEN IF fnd + 1 >= n THEN [hit |-> TRUE, i |-> i, found |-> fnd + 1]
            ELSE scan_block_ge(buf, i - 1, fnd + 1, n)
       ELSE scan_block_ge(buf, i - 1, fnd, n)

RECURSIVE scan_block(_, _, _, _)
scan_block(buf, i, fnd, n) ==
  IF i = 0 THEN [hit |-> FALSE, i |-> 0, found |-> fnd]
  ELSE IF buf[i] = NL
       THEN IF fnd + 1 > n THEN [hit |-> TRUE, i |-> i, found |-> fnd + 1]
            ELSE scan_block(buf, i - 1, fnd + 1, n)
       ELSE scan_block(buf, i - 1, fnd, n)

\* cmd_follow: the effective tail request
TailRequest(tl, since, rate) ==
  IF tl <= 0 /\ since > 0
  THEN Min(Max(since * rate, 1), MaxSinceTail)
  ELSE tl

----------------------------------------------------------------------------
(* History *)

LoopPcs == {"read", "size", "sleep"}

NoWatch == [status |-> "none", at |-> 0, text |-> <<>>, reads |-> 0, sleeps |-> 0]
NoTw == [status |-> "none", mark |-> 0, text |-> <<>>, reads |-> 0]

AtEof == pc \in LoopPcs /\ offset = Len(file)

Texts(em) == [i \in 1..Len(em) |-> em[i].text]

----------------------------------------------------------------------------
(* The program: cmd_follow and tail_last_lines *)

CmdFollowStart ==
  /\ pc = "start"
  /\ pc' = IF tail_lines > 0 THEN "tail_size" ELSE "seek_end"
  /\ UNCHANGED <<pureVars, optVars, offset, last_size, tend, tpos, found, emitted,
                 histVars, file, stat, writes>>

TailSize ==
  /\ pc = "tail_size"
  /\ \E fails \in BOOLEAN :
       LET end == file_size(fails)
       IN  /\ tend' = end
           /\ IF end < 0
              THEN /\ pc' = "seek_end"
                   /\ statFailed' = TRUE
                   /\ UNCHANGED <<tpos, found>>
              ELSE /\ pc' = "tail_scan"
                   /\ tpos' = end
                   /\ found' = 0
                   /\ UNCHANGED statFailed
  /\ UNCHANGED <<pureVars, optVars, offset, last_size, emitted, truncated,
                 everPartial, tailOffset, partialStart, watch, tw, file, stat, writes>>

TailScan ==
  /\ pc = "tail_scan"
  /\ IF tpos > 0 /\ found <= tail_lines
     THEN LET to_read == Min(block, tpos)
              pos1 == tpos - to_read
              buf == fread(file, pos1, to_read)
              r == scan_block(buf, Len(buf), found, tail_lines)
          IN  IF r.hit
              THEN /\ tpos' = pos1 + r.i
                   /\ found' = r.found
                   /\ offset' = pos1 + r.i
                   /\ tailOffset' = pos1 + r.i
                   /\ pc' = "tail_print"
              ELSE /\ tpos' = pos1
                   /\ found' = r.found
                   /\ UNCHANGED <<offset, tailOffset, pc>>
     ELSE /\ tpos' = 0
          /\ offset' = 0
          /\ tailOffset' = 0
          /\ pc' = "tail_print"
          /\ UNCHANGED found
  /\ UNCHANGED <<pureVars, optVars, last_size, tend, emitted, truncated, everPartial,
                 statFailed, partialStart, watch, tw, file, stat, writes>>

TailPrint ==
  /\ pc = "tail_print"
  /\ LET line == fgets(file, offset, LineBuf)
     IN  IF line = <<>>
         THEN /\ pc' = "seek_end"
              /\ UNCHANGED <<offset, emitted>>
         ELSE /\ offset' = offset + Len(line)
              /\ emitted' = IF should_print(include, exclude, line)
                            THEN Append(emitted, [by |-> "tail", at |-> offset, text |-> line])
                            ELSE emitted
              /\ UNCHANGED pc
  /\ UNCHANGED <<pureVars, optVars, last_size, tend, tpos, found, histVars,
                 file, stat, writes>>

SeekEnd ==
  /\ pc = "seek_end"
  /\ offset' = Len(file)
  /\ pc' = "init_size"
  /\ UNCHANGED <<pureVars, optVars, last_size, tend, tpos, found, emitted, histVars,
                 file, stat, writes>>

InitSize ==
  /\ pc = "init_size"
  /\ \E fails \in BOOLEAN :
       /\ last_size' = file_size(fails)
       /\ statFailed' = (statFailed \/ file_size(fails) < 0)
  /\ pc' = "read"
  /\ UNCHANGED <<pureVars, optVars, offset, tend, tpos, found, emitted, truncated,
                 everPartial, tailOffset, partialStart, watch, tw, file, stat, writes>>

\* one pass of the for (;;) body that starts with fgetc
LoopRead ==
  /\ pc = "read"
  /\ LET buf == fgets(file, offset, LineBuf)
         eof == offset >= Len(file)
         shown == ~eof /\ buf # <<>> /\ should_print(include, exclude, buf)
     IN  /\ IF eof
            THEN /\ pc' = "size"
                 /\ UNCHANGED <<offset, emitted>>
            ELSE /\ pc' = "read"
                 /\ offset' = offset + Len(buf)
                 /\ emitted' = IF shown
                               THEN Append(emitted, [by |-> "follow", at |-> offset, text |-> buf])
                               ELSE emitted
         /\ watch' = IF watch.status # "pending" THEN watch
                     ELSE IF ~eof /\ offset = watch.at /\ buf = watch.text
                          THEN [watch EXCEPT !.status = IF shown THEN "served" ELSE "dropped"]
                          ELSE [watch EXCEPT !.reads = 1]
         /\ tw' = IF tw.status = "written"
                  THEN [tw EXCEPT !.reads = Min(tw.reads + 1, 2)]
                  ELSE tw
  /\ UNCHANGED <<pureVars, optVars, last_size, tend, tpos, found, truncated,
                 everPartial, statFailed, tailOffset, partialStart, file, stat, writes>>

LoopSize_skip_growth ==
  /\ pc = "size"
  /\ \E fails \in BOOLEAN :
     LET sz == file_size(fails)
     IN  /\ offset' = IF sz >= 0 /\ last_size >= 0 /\ sz < last_size THEN 0
                      ELSE IF sz > last_size THEN sz
                      ELSE offset
         /\ last_size' = sz
         /\ statFailed' = (statFailed \/ sz < 0)
  /\ pc' = "sleep"
  /\ UNCHANGED <<pureVars, optVars, tend, tpos, found, emitted, truncated,
                 everPartial, tailOffset, partialStart, watch, tw, file, stat, writes>>

\* the EOF branch up to the sleep: clearerr, the truncation check, last_size = sz
LoopSize ==
  /\ pc = "size"
  /\ \E fails \in BOOLEAN :
     LET sz == file_size(fails)
     IN  /\ offset' = IF sz >= 0 /\ last_size >= 0 /\ sz < last_size THEN 0 ELSE offset
         /\ last_size' = sz
         /\ statFailed' = (statFailed \/ sz < 0)
  /\ pc' = "sleep"
  /\ UNCHANGED <<pureVars, optVars, tend, tpos, found, emitted, truncated,
                 everPartial, tailOffset, partialStart, watch, tw, file, stat, writes>>

\* sleep_ms(o->interval_ms); continue
LoopSleep ==
  /\ pc = "sleep"
  /\ pc' = "read"
  /\ watch' = IF watch.status = "pending"
              THEN [watch EXCEPT !.sleeps = Min(watch.sleeps + 1, 2)]
              ELSE watch
  /\ UNCHANGED <<pureVars, optVars, offset, last_size, tend, tpos, found, emitted,
                 truncated, everPartial, statFailed, tailOffset, partialStart, tw,
                 file, stat, writes>>

Program ==
  \/ CmdFollowStart
  \/ TailSize
  \/ TailScan
  \/ TailPrint
  \/ SeekEnd
  \/ InitSize
  \/ LoopRead
  \/ LoopSize
  \/ LoopSleep

----------------------------------------------------------------------------
(* The writer of the followed file *)

NewLines == {<<"a", NL>>, <<"b", "b", NL>>}

AppendLine(l) ==
  /\ writes < MaxWrites
  /\ Len(file) + Len(l) <= MaxFile
  /\ file' = file \o l
  /\ writes' = writes + 1
  /\ watch' = IF AtEof /\ Terminated(file) /\ ~truncated /\ watch.status # "pending"
              THEN [status |-> "pending", at |-> Len(file), text |-> l,
                    reads |-> 0, sleeps |-> 0]
              ELSE watch
  /\ tw' = IF tw.status = "truncated" THEN [tw EXCEPT !.status = "written", !.text = l]
           ELSE NoTw
  /\ partialStart' = -1
  /\ UNCHANGED <<pureVars, optVars, progVars, truncated, everPartial, statFailed,
                 tailOffset, stat>>

AppendPartial(c) ==
  /\ writes < MaxWrites
  /\ Len(file) + 1 <= MaxFile
  /\ file' = Append(file, c)
  /\ writes' = writes + 1
  /\ everPartial' = TRUE
  /\ partialStart' = IF partialStart = -1 /\ Terminated(file) /\ pc \in LoopPcs
                     THEN Len(file)
                     ELSE partialStart
  /\ tw' = NoTw
  /\ UNCHANGED <<pureVars, optVars, progVars, truncated, statFailed, tailOffset,
                 watch, stat>>

Truncate ==
  /\ writes < MaxWrites
  /\ file # <<>>
  /\ file' = <<>>
  /\ writes' = writes + 1
  /\ truncated' = TRUE
  /\ tw' = IF AtEof /\ Terminated(file)
           THEN [status |-> "truncated", mark |-> Len(emitted), text |-> <<>>, reads |-> 0]
           ELSE NoTw
  /\ watch' = IF watch.status = "pending" THEN NoWatch ELSE watch
  /\ partialStart' = -1
  /\ UNCHANGED <<pureVars, optVars, progVars, everPartial, statFailed, tailOffset, stat>>

Writer ==
  \/ \E l \in NewLines : AppendLine(l)
  \/ \E c \in Lits : AppendPartial(c)
  \/ Truncate

(* The handle goes bad: every size query fails from now on *)

StatDie ==
  /\ stat = "ok"
  /\ stat' = "dead"
  /\ UNCHANGED <<pureVars, optVars, progVars, histVars, file, writes>>

----------------------------------------------------------------------------
(* Specifications *)

PureIdle == re = <<>> /\ text = <<>> /\ result = FALSE

ProgFresh ==
  /\ offset = 0 /\ last_size = 0 /\ tend = 0 /\ tpos = 0 /\ found = 0
  /\ emitted = <<>>
  /\ stat = "ok" /\ writes = 0
  /\ truncated = FALSE /\ everPartial = FALSE /\ statFailed = FALSE
  /\ tailOffset = -1 /\ partialStart = -1
  /\ watch = NoWatch /\ tw = NoTw

NoFilter == include = <<>> /\ exclude = <<>>

\* the matcher alone
PatChars == Lits \cup {".", "*", "^", "$"}
TextChars == Lits \cup {"$"}

InitMatch ==
  /\ re \in SeqsUpTo(PatChars, MaxPat)
  /\ text \in SeqsUpTo(TextChars, MaxText)
  /\ result = FALSE
  /\ pc = "match"
  /\ NoFilter /\ tail_lines = 0 /\ block = TailBlock /\ file = <<>> /\ ProgFresh

Match ==
  /\ pc = "match"
  /\ result' = matchre_builtin(re, text)
  /\ pc' = "matched"
  /\ UNCHANGED <<re, text, optVars, offset, last_size, tend, tpos, found, emitted,
                 histVars, file, stat, writes>>

SpecMatch == InitMatch /\ [][Match]_vars

\* the filter alone
FilterPats == {<<"a">>, <<"^", "b">>, <<"a", "$">>}

InitFilter ==
  /\ include \in SeqsUpTo(FilterPats, MaxPats)
  /\ exclude \in SeqsUpTo(FilterPats, MaxPats)
  /\ text \in SeqsUpTo(Lits \cup {NL, CR}, MaxLine)
  /\ re = <<>> /\ result = FALSE
  /\ pc = "filter"
  /\ tail_lines = 0 /\ block = TailBlock /\ file = <<>> /\ ProgFresh

Filter ==
  /\ pc = "filter"
  /\ result' = should_print(include, exclude, text)
  /\ pc' = "filtered"
  /\ UNCHANGED <<re, text, optVars, offset, last_size, tend, tpos, found, emitted,
                 histVars, file, stat, writes>>

SpecFilter == InitFilter /\ [][Filter]_vars

\* the tail locator alone, on a file nobody writes
Blocks == 1..MaxBlock \cup {TailBlock}

InitTail ==
  /\ file \in SeqsUpTo({"a", NL}, MaxTailFile)
  /\ tail_lines \in 1..MaxN
  /\ block \in Blocks
  /\ pc = "start"
  /\ NoFilter /\ PureIdle /\ ProgFresh

NextTail == CmdFollowStart \/ TailSize \/ TailScan \/ TailPrint

SpecTail == InitTail /\ [][NextTail]_vars

\* the whole program beside the writer and the failing size query
Filters == {<<<<>>, <<>>>>, <<<< <<"a">> >>, <<>>>>, <<<<>>, << <<"b">> >>>>}

InitFollow ==
  /\ file \in SeqsUpTo({"a", NL}, 2)
  /\ tail_lines \in {TailRequest(t, s, 1) : t \in 0..1, s \in 0..1}
  /\ block \in {2, TailBlock}
  /\ \E f \in Filters : include = f[1] /\ exclude = f[2]
  /\ pc = "start"
  /\ PureIdle /\ ProgFresh

Next == Program \/ Writer \/ StatDie

Spec == InitFollow /\ [][Next]_vars

\* the program keeps running: a sleep ends, a system call returns
FairSpec == Spec /\ WF_vars(Program)

----------------------------------------------------------------------------
(* What the claims are measured against *)

\* p occurs in t as a contiguous substring
IsSubstring(p, t) ==
  \E i \in 0..Len(t) : i + Len(p) <= Len(t) /\ SubSeq(t, i + 1, i + Len(p)) = p

IsLiteral(p) == \A i \in 1..Len(p) : p[i] \in Lits

\* a pattern as its anchors and items (an atom, starred or not)
HasCaret(p) == p # <<>> /\ p[1] = "^"
AfterCaret(p) == IF HasCaret(p) THEN Tail(p) ELSE p
HasDollar(p) == AfterCaret(p) # <<>> /\ AfterCaret(p)[Len(AfterCaret(p))] = "$"
Body(p) ==
  IF HasDollar(p) THEN SubSeq(AfterCaret(p), 1, Len(AfterCaret(p)) - 1) ELSE AfterCaret(p)

RECURSIVE Items(_)
Items(b) ==
  IF b = <<>> THEN <<>>
  ELSE IF Len(b) >= 2 /\ b[2] = "*"
       THEN <<[c |-> b[1], star |-> TRUE]>> \o Items(Drop(b, 2))
       ELSE <<[c |-> b[1], star |-> FALSE]>> \o Items(Tail(b))

WellFormed(p) ==
  \A i \in 1..Len(Items(Body(p))) : Items(Body(p))[i].c \in Lits \cup {"."}

AtomOk(c, ch) == c = "." \/ c = ch

\* the positions of t an item can end at, started at a position of S
ItemEnds(it, S, t) ==
  IF it.star
  THEN {q \in 0..Len(t) : \E q0 \in S : q0 <= q /\ \A k \in (q0 + 1)..q : AtomOk(it.c, t[k])}
  ELSE {q \in 1..Len(t) : (q - 1) \in S /\ AtomOk(it.c, t[q])}

RECURSIVE Ends(_, _, _, _)
Ends(its, i, S, t) ==
  IF i > Len(its) THEN S ELSE Ends(its, i + 1, ItemEnds(its[i], S, t), t)

\* some substring of t, placed as the anchors demand, is in the language of p
InLanguage(p, t) ==
  LET starts == IF HasCaret(p) THEN {0} ELSE 0..Len(t)
      ends == Ends(Items(Body(p)), 1, starts, t)
  IN  \E q \in ends : HasDollar(p) => q = Len(t)

\* s without its trailing '\r' and '\n'
Stripped(s) ==
  LET keep == {k \in 0..Len(s) : \A j \in (k + 1)..Len(s) : s[j] \in {NL, CR}}
      k0 == CHOOSE k \in keep : \A m \in keep : k <= m
  IN  SubSeq(s, 1, k0)

Admits(inc, exc, ln) ==
  /\ inc = <<>> \/ \E i \in 1..Len(inc) : re_match(inc[i], Stripped(ln))
  /\ \A j \in 1..Len(exc) : ~re_match(exc[j], Stripped(ln))

Perms(n) == {f \in [1..n -> 1..n] : \A i, j \in 1..n : f[i] = f[j] => i = j}
Reorder(sq, f) == [i \in 1..Len(sq) |-> sq[f[i]]]

\* the lines of s, each with its terminator, the last one perhaps without
RECURSIVE Split(_)
Split(s) ==
  IF s = <<>> THEN <<>>
  ELSE LET nls == {i \in 1..Len(s) : s[i] = NL}
           k == IF nls = {} THEN Len(s) ELSE CHOOSE i \in nls : \A j \in nls : i <= j
       IN  <<SubSeq(s, 1, k)>> \o Split(Drop(s, k))

NumLines(f) == Len(Split(f))
LastLines(f, n) == Drop(Split(f), NumLines(f) - Min(n, NumLines(f)))

RECURSIVE Concat(_)
Concat(ls) == IF ls = <<>> THEN <<>> ELSE Head(ls) \o Concat(Tail(ls))

----------------------------------------------------------------------------
(* Claims *)

C4_LiteralIsSubstring ==
  (pc = "matched" /\ IsLiteral(re)) => (result = IsSubstring(re, text))

C4_Witness ==
  /\ pc = "matched" /\ IsLiteral(re) /\ Len(re) = 2 /\ Len(text) = 4
  /\ SubSeq(text, 3, 4) = re /\ SubSeq(text, 1, 2) # re /\ SubSeq(text, 2, 3) # re
  /\ result = TRUE

\* C5: for a pattern of literals, '.', starred atoms, an optional leading '^'
\* and an optional trailing '$', matchre_builtin is true iff some substring of
\* the text (from offset 0 under '^', to the end under '$') is in the language
\* of the pattern, x* standing for zero or more x.
C5_MatchesLanguage ==
  (pc = "matched" /\ WellFormed(re)) => (result = InLanguage(re, text))

C5_Witness ==
  /\ pc = "matched"
  /\ re = <<"^", "a", "*", "a">>
  /\ text = <<"a", "a", "a">>
  /\ result = TRUE

C3_TailOnUnterminated ==
  (pc = "seek_end" /\ ~statFailed /\ ~Terminated(file)) =>
    /\ Len(emitted) = Min(tail_lines, NumLines(file))
    /\ Texts(emitted) = LastLines(file, tail_lines)


Admitted(ln) == should_print(include, exclude, ln)

\* C7: the loop at end-of-file with every existing line emitted, the file never
\* truncated: a complete line the writer appends, if the filter admits it, is
\* emitted by the first read attempt after the append, at most one sleep
\* after it; and after a line is read the next step is a read, not a sleep.
C7_AppendServed ==
  /\ []((watch.status = "pending" /\ Admitted(watch.text))
          => (watch.reads = 0 /\ watch.sleeps <= 1))
  /\ []((watch.status = "served")
          => (emitted # <<>> /\ emitted[Len(emitted)].by = "follow"
              /\ \E i \in 1..Len(emitted) :
                   emitted[i].at = watch.at /\ emitted[i].text = watch.text))
  /\ [][(pc = "read" /\ offset' # offset) => pc' = "read"]_vars

C7_Witness ==
  /\ watch.status = "served" /\ watch.sleeps = 1
  /\ watch.at > 0
  /\ emitted[Len(emitted)].text = watch.text

\* C6: the loop at end-of-file with every existing line emitted: after the
\* writer truncates the file to zero length and writes one complete line, the
\* loop emits that line (if the filter admits it) exactly once and nothing
\* else, by the second read attempt after the write at the latest.
C6_TruncationEmitsOnlyNew ==
  (tw.status = "written" /\ ~statFailed) =>
    LET since == Drop(Texts(emitted), tw.mark)
        expected == IF Admitted(tw.text) THEN <<tw.text>> ELSE <<>>
    IN  /\ since = <<>> \/ since = expected
        /\ tw.reads >= 2 => since = expected

\* C9: the file never having shrunk: while bytes the writer appended lack
\* their '\n', the loop stays at or before their start; every text the
\* follow loop emits ends with '\n'.
C9_NoPartialEmit ==
  ~truncated =>
    /\ partialStart >= 0 => offset <= partialStart
    /\ \A i \in 1..Len(emitted) :
         emitted[i].by = "follow" => emitted[i].text[Len(emitted[i].text)] = NL

\* C10: a tail requested and located, no filter, the writer only appending
\* complete lines to a file of complete lines: what has been emitted is, line
\* by line and in order, the file from the tail offset to the read position;
\* nothing between them is skipped or emitted twice.
C10_HandoffNoGap ==
  ( /\ tailOffset >= 0
    /\ pc \in {"tail_print", "seek_end", "init_size"} \cup LoopPcs
    /\ ~truncated /\ ~everPartial /\ Terminated(file)
    /\ NoFilter )
  => Texts(emitted) = Split(SubSeq(file, tailOffset + 1, offset))

\* C8: once every size query fails, the follow loop eventually terminates.
C8_FatalTerminates == (stat = "dead") ~> (pc = "exit")

====
